---- MODULE Spec2Model ----
(***************************************************************************)
(* Geo-aware R2 gateway: nearest-bucket resolution and the GET / POST /    *)
(* PUT handlers of the three worker variants found in the repository:      *)
(*   "index"  the Hono worker with DEFAULT_BUCKET  (auth.js, lines 296-609) *)
(*   "hono"   the older Hono worker                 (hono.js)               *)
(*   "fetch"  the plain fetch worker                (auth.js, lines 33-208) *)
(* Each handler is one atomic action; the R2 buckets are the environment.  *)
(* Spec serves one request at a time, SpecInstances lets several instances *)
(* hold requests in flight, SpecNearest exercises findNearestPosition.     *)
(***************************************************************************)
EXTENDS Integers, Sequences, FiniteSets, TLC

\* ------------------------------------------------------------------ bounds
MaxReg == 2          \* longest registry handed to findNearestPosition
MaxUploads == 1      \* multipart uploads a run may create
MaxInstances == 2    \* gateway instances serving requests concurrently

\* ------------------------------------------------------- JavaScript values
\* A JavaScript value that is either undefined or a number.
Undef == [t |-> "undefined", v |-> 0]
Num(n) == [t |-> "number", v |-> n]
\* !x for such a value: undefined and 0 are falsy.
Falsy(x) == x.t = "undefined" \/ (x.t = "number" /\ x.v = 0)

\* Infinity, as a number above every distance on the globe.
Infinity == 2147483647

\* Coordinates are integers in units of 1e-7 degree.
Deg == 10000000

\* userLocation: null, or an object whose fields may be undefined.
NullLocation == [t |-> "null", latitude |-> Undef, longitude |-> Undef]
Location(lat, lon) == [t |-> "object", latitude |-> lat, longitude |-> lon]

\* ------------------------------------------------------------ the registry
BUCKET_POSITIONS ==
  << [latitude |-> 482203697, longitude |-> 162972723, env |-> "EEUR_BUCKET",
      name |-> "EU East - Vienna", shortName |-> "EEUR"],
     [latitude |-> 533244116, longitude |-> -64105081, env |-> "WEUR_BUCKET",
      name |-> "EU West - Dublin", shortName |-> "WEUR"],
     [latitude |-> 388951100, longitude |-> -770363700, env |-> "ENAM_BUCKET",
      name |-> "US East - Washington D.C.", shortName |-> "ENAM"],
     [latitude |-> 377577607, longitude |-> -1224787995, env |-> "WNAM_BUCKET",
      name |-> "US West - Los Angeles", shortName |-> "WNAM"],
     [latitude |-> 13520830, longitude |-> 1038198360, env |-> "APAC_BUCKET",
      name |-> "Asia Pacific - Singapore", shortName |-> "APAC"] >>

DEFAULT_BUCKET == "ENAM_BUCKET"

\* ---------------------------------------------------------------- geolib
\* Great-circle distance in decimetres (earth radius 6378137 m, spherical
\* law of cosines as geolib's getDistance computes it), tabulated for the
\* coordinate pairs the model uses: <<lat1, lon1, lat2, lon2>>.
DistanceDm ==
    <<0, 0, 0, 0>> :> 0 @@
    <<0, 0, 10000000, 10000000>> :> 1574255 @@
    <<0, 0, 90000000, 90000000>> :> 14139398 @@
    <<0, 0, 100000000, 100000000>> :> 15702776 @@
    <<0, 0, 50000000, 10000000>> :> 5675925 @@
    <<0, 0, 90000000, 10000000>> :> 10079902 @@
    <<10000000, 10000000, 0, 0>> :> 1574255 @@
    <<10000000, 10000000, 10000000, 10000000>> :> 0 @@
    <<10000000, 10000000, 90000000, 90000000>> :> 12565176 @@
    <<10000000, 10000000, 100000000, 100000000>> :> 14128571 @@
    <<10000000, 10000000, 50000000, 10000000>> :> 4452779 @@
    <<10000000, 10000000, 90000000, 10000000>> :> 8905559 @@
    <<90000000, 90000000, 0, 0>> :> 14139398 @@
    <<90000000, 90000000, 10000000, 10000000>> :> 12565176 @@
    <<90000000, 90000000, 90000000, 90000000>> :> 0 @@
    <<90000000, 90000000, 100000000, 100000000>> :> 1563526 @@
    <<90000000, 90000000, 50000000, 10000000>> :> 9895617 @@
    <<90000000, 90000000, 90000000, 10000000>> :> 8795741 @@
    <<100000000, 100000000, 0, 0>> :> 15702776 @@
    <<100000000, 100000000, 10000000, 10000000>> :> 14128571 @@
    <<100000000, 100000000, 90000000, 90000000>> :> 1563526 @@
    <<100000000, 100000000, 100000000, 100000000>> :> 0 @@
    <<100000000, 100000000, 50000000, 10000000>> :> 11383146 @@
    <<100000000, 100000000, 90000000, 10000000>> :> 9943448 @@
    <<50000000, 10000000, 0, 0>> :> 5675925 @@
    <<50000000, 10000000, 10000000, 10000000>> :> 4452779 @@
    <<50000000, 10000000, 90000000, 90000000>> :> 9895617 @@
    <<50000000, 10000000, 100000000, 100000000>> :> 11383146 @@
    <<50000000, 10000000, 50000000, 10000000>> :> 0 @@
    <<50000000, 10000000, 90000000, 10000000>> :> 4452779 @@
    <<90000000, 10000000, 0, 0>> :> 10079902 @@
    <<90000000, 10000000, 10000000, 10000000>> :> 8905559 @@
    <<90000000, 10000000, 90000000, 90000000>> :> 8795741 @@
    <<90000000, 10000000, 100000000, 100000000>> :> 9943448 @@
    <<90000000, 10000000, 50000000, 10000000>> :> 4452779 @@
    <<90000000, 10000000, 90000000, 10000000>> :> 0 @@
    <<480000000, 160000000, 482203697, 162972723>> :> 330152 @@
    <<480000000, 160000000, 533244116, -64105081>> :> 16802214 @@
    <<480000000, 160000000, 388951100, -770363700>> :> 71197542 @@
    <<480000000, 160000000, 377577607, -1224787995>> :> 96424583 @@
    <<480000000, 160000000, 13520830, 1038198360>> :> 97445168 @@
    <<400000000, -750000000, 482203697, 162972723>> :> 69140221 @@
    <<400000000, -750000000, 533244116, -64105081>> :> 52271075 @@
    <<400000000, -750000000, 388951100, -770363700>> :> 2139303 @@
    <<400000000, -750000000, 377577607, -1224787995>> :> 40731531 @@
    <<400000000, -750000000, 13520830, 1038198360>> :> 154326474 @@
    <<350000000, 1390000000, 482203697, 162972723>> :> 91688919 @@
    <<350000000, 1390000000, 533244116, -64105081>> :> 96534568 @@
    <<350000000, 1390000000, 388951100, -770363700>> :> 110139417 @@
    <<350000000, 1390000000, 377577607, -1224787995>> :> 83725008 @@
    <<350000000, 1390000000, 13520830, 1038198360>> :> 52243482

\* geolib getDistance(from, to, accuracy): metres rounded to a multiple of
\* accuracy, Math.round(distance / accuracy) * accuracy.
getDistance(from, to, accuracy) ==
  LET dm == DistanceDm[<<from.latitude.v, from.longitude.v, to.latitude, to.longitude>>]
  IN  ((dm + 5 * accuracy) \div (10 * accuracy)) * accuracy

\* geolib reads a coordinate with value.toString(): an undefined latitude or
\* longitude raises a TypeError.
getDistanceThrows(from) ==
  from.latitude.t = "undefined" \/ from.longitude.t = "undefined"

\* ------------------------------------------- index worker: nearest position
\* calculateDistance: Infinity when any of the four coordinates is falsy.
calculateDistance(userLocation, position) ==
  IF \/ userLocation.t = "null"
     \/ Falsy(userLocation.latitude)
     \/ Falsy(userLocation.longitude)
     \/ position.latitude = 0
     \/ position.longitude = 0
  THEN Infinity
  ELSE getDistance(userLocation, position, 10)

NoPosition == [t |-> "null", position |-> [latitude |-> 0, longitude |-> 0, env |-> "",
                                          name |-> "", shortName |-> ""]]
SomePosition(p) == [t |-> "position", position |-> p]
ThrownPosition == [t |-> "throw", position |-> NoPosition.position]

\* The for loop of findNearestPosition from index i on, carrying
\* nearestPosition and minDistance.
RECURSIVE nearestLoop(_, _, _, _, _)
nearestLoop(userLocation, positions, i, nearestPosition, minDistance) ==
  IF i > Len(positions) THEN nearestPosition
  ELSE LET distance == calculateDistance(userLocation, positions[i])
       IN  IF distance < minDistance
           THEN nearestLoop(userLocation, positions, i + 1, SomePosition(positions[i]), distance)
           ELSE nearestLoop(userLocation, positions, i + 1, nearestPosition, minDistance)

findNearestPosition(userLocation, positions) ==
  IF userLocation.t = "null" \/ Len(positions) = 0
  THEN NoPosition
  ELSE nearestLoop(userLocation, positions, 1, NoPosition, Infinity)

\* ---------------------------------- hono and fetch workers: nearest position
\* calculateDistance of hono.js: null only for a missing argument, which the
\* callers never pass; otherwise geolib's distance with accuracy 1.
calculateDistanceReduce(userLocation, position) ==
  getDistance(userLocation, position, 1)

\* distances.reduce((min, cur) => cur.distance < min.distance ? cur : min)
\* from index i on; the accumulator starts as the first element.
RECURSIVE reduceLoop(_, _, _, _)
reduceLoop(userLocation, positions, i, minPosition) ==
  IF i > Len(positions) THEN minPosition
  ELSE IF calculateDistanceReduce(userLocation, positions[i])
            < calculateDistanceReduce(userLocation, minPosition)
       THEN reduceLoop(userLocation, positions, i + 1, positions[i])
       ELSE reduceLoop(userLocation, positions, i + 1, minPosition)

findNearestPositionReduce(userLocation, positions) ==
  IF userLocation.t = "null" \/ Len(positions) = 0
  THEN NoPosition
  ELSE IF getDistanceThrows(userLocation)
       THEN ThrownPosition
       ELSE SomePosition(reduceLoop(userLocation, positions, 2, positions[1]))

\* ------------------------------------------------------------------ state
VARIABLES
  variant,      \* which worker serves: "index", "hono" or "fetch"
  req,          \* the request handled last
  resp,         \* its response
  calls,        \* the bucket operations invoked while handling it, in order
  uploads,      \* multipart sessions held by the buckets
  objects,      \* <<bucket, key>> pairs stored in the buckets
  fetched,      \* what bucket.get returned to the request handled last
  raised,       \* what the last bucket operation of that request raised
  failedAt,     \* position in calls of the first operation that raised, or 0
  pending,      \* per instance: the request it has accepted and not yet served
  servedBy,     \* the instance that served the request handled last, or 0
  createdVia,   \* <<uploadId, instance>>: which instance served each mpu-create
  phase,        \* resolver harness: "input" or "done"
  inLocation,   \* resolver harness: userLocation argument
  inPositions,  \* resolver harness: positions argument
  impl,         \* resolver harness: which findNearestPosition ran
  outNearest    \* resolver harness: its result

vars == <<variant, req, resp, calls, uploads, objects, fetched, raised, failedAt,
          pending, servedBy, createdVia,
          phase, inLocation, inPositions, impl, outNearest>>
gatewayVars == <<variant, req, resp, calls, uploads, objects, fetched, raised, failedAt,
                 pending, servedBy, createdVia>>
resolverVars == <<phase, inLocation, inPositions, impl, outNearest>>
instanceVars == <<pending, servedBy, createdVia>>

\* ---------------------------------------------------------- request inputs
Absent == "(absent)"           \* a header or query parameter that is not sent
Key == "report.pdf"
Keys == {"", Key}
Methods == {"GET", "POST", "PUT", "DELETE"}
Variants == {"index", "hono", "fetch"}

\* request.cf / c.env.CF: missing altogether, present without coordinates,
\* or present with coordinates.
ClientLocations ==
  { NullLocation,
    Location(Undef, Undef),
    Location(Num(48 * Deg), Undef),
    Location(Num(48 * Deg), Num(16 * Deg)),
    Location(Num(40 * Deg), Num(-75 * Deg)),
    Location(Num(35 * Deg), Num(139 * Deg)) }

Selectors == {Absent, "", "ENAM", "APAC", "MARS"}
Actions == {Absent, "mpu-create", "mpu-complete", "mpu-uploadpart"}

UploadIdOf(n) == <<"u1", "u2", "u3", "u4">>[n]
UploadIds == {Absent, "stale"} \cup {UploadIdOf(n) : n \in 1..MaxUploads}

\* partNumber query parameter: absent, or a string of characters.
NoParam == [present |-> FALSE, chars |-> <<>>]
Param(s) == [present |-> TRUE, chars |-> s]
PartNumberStrings ==
  { NoParam, Param(<<>>), Param(<<"0">>), Param(<<"1">>), Param(<<"-", "1">>),
    Param(<<"a">>), Param(<<"1", "a">>) }

\* The JSON body of mpu-complete: unparsable, null, or an object whose parts
\* field is missing, a string, or an array of part numbers.
Json(t, pt, items) == [t |-> t, parts |-> [t |-> pt, items |-> items]]
JsonBodies ==
  { Json("invalid", "undefined", <<>>),
    Json("null", "undefined", <<>>),
    Json("object", "undefined", <<>>),
    Json("object", "string", <<>>),
    Json("object", "array", <<>>),
    Json("object", "array", <<1>>) }

PartOne == Param(<<"1">>)
Instances == 1..MaxInstances
NoRequest ==
  [method |-> "", key |-> "", auth |-> "", cf |-> NullLocation, range |-> FALSE,
   selector |-> Absent, action |-> Absent, uploadId |-> Absent,
   partNumber |-> NoParam, hasBody |-> FALSE, json |-> Json("invalid", "undefined", <<>>)]

\* ------------------------------------------------------------- parseInt
Digits == {"0", "1", "2", "3", "4", "5", "6", "7", "8", "9"}
DigitValue(ch) ==
  CASE ch = "0" -> 0 [] ch = "1" -> 1 [] ch = "2" -> 2 [] ch = "3" -> 3 [] ch = "4" -> 4
    [] ch = "5" -> 5 [] ch = "6" -> 6 [] ch = "7" -> 7 [] ch = "8" -> 8 [] ch = "9" -> 9

NaN == [nan |-> TRUE, v |-> 0]
Number(n) == [nan |-> FALSE, v |-> n]

\* The value of the longest prefix of digits of s, given the value acc of
\* the digits already read.
RECURSIVE digitPrefix(_, _)
digitPrefix(s, acc) ==
  IF Len(s) = 0 \/ Head(s) \notin Digits THEN acc
  ELSE digitPrefix(Tail(s), 10 * acc + DigitValue(Head(s)))

\* parseInt(string, 10): an optional sign, then the longest prefix of
\* digits; NaN when there is no digit.  (Without the radix argument the
\* result differs only for a 0x prefix, which the inputs do not contain.)
parseInt(s) ==
  LET signed == Len(s) > 0 /\ Head(s) \in {"-", "+"}
      rest == IF signed THEN Tail(s) ELSE s
  IN  IF Len(rest) = 0 \/ Head(rest) \notin Digits THEN NaN
      ELSE IF signed /\ Head(s) = "-" THEN Number(0 - digitPrefix(rest, 0))
      ELSE Number(digitPrefix(rest, 0))

\* ------------------------------------------------------------ the buckets
\* What bucket.get hands back for a stored object: a body (absent when a
\* conditional header matched), the size, and the applied range if any.
NoRange == [present |-> FALSE, offset |-> 0, hasEnd |-> FALSE, end |-> 0]
R2Range(offset, hasEnd, end) == [present |-> TRUE, offset |-> offset, hasEnd |-> hasEnd, end |-> end]
Descriptors ==
  { [hasBody |-> b, size |-> 1000, range |-> r] :
      b \in BOOLEAN, r \in {NoRange, R2Range(100, FALSE, 0), R2Range(0, TRUE, 0)} }
NoObject == [hasBody |-> FALSE, size |-> 0, range |-> NoRange]

MsgNoSuchUpload == "The specified multipart upload does not exist."
MsgInvalidPart == "One or more of the specified parts could not be found."
MsgInternal == "We encountered an internal error. Please try again."
MsgInvalidKey == "The specified object name is not valid."

\* One recorded bucket operation.
Call(op, bucket, key, uploadId, partNumber, parts) ==
  [op |-> op, bucket |-> bucket, key |-> key, uploadId |-> uploadId,
   partNumber |-> partNumber, parts |-> parts]
NoParts == [t |-> "undefined", items |-> <<>>]

\* bucket.get(objectName, {range, onlyIf}): raises, or null when the object
\* is not stored in that bucket, or the descriptor.
bucketGet(objs, bucket, key, desc, fault) ==
  IF fault = "get" THEN [t |-> "throw", obj |-> NoObject]
  ELSE IF <<bucket, key>> \notin objs THEN [t |-> "null", obj |-> NoObject]
  ELSE [t |-> "object", obj |-> desc]

\* bucket.createMultipartUpload(objectName): raises, or opens a session under
\* a fresh upload id.
createMultipartUpload(ups, bucket, key, fault) ==
  IF fault = "createMultipartUpload" THEN [t |-> "throw", msg |-> MsgInternal, uploadId |-> Absent, uploads |-> ups]
  ELSE IF key = "" THEN [t |-> "throw", msg |-> MsgInvalidKey, uploadId |-> Absent, uploads |-> ups]
  ELSE LET id == UploadIdOf(Cardinality(ups) + 1)
       IN  [t |-> "ok", msg |-> "", uploadId |-> id,
            uploads |-> ups \cup {[bucket |-> bucket, key |-> key, uploadId |-> id,
                                   parts |-> {}, completed |-> FALSE]}]

\* The open session a resumed handle refers to, if the bucket has one.
openSessions(ups, bucket, key, uploadId) ==
  {s \in ups : s.bucket = bucket /\ s.key = key /\ s.uploadId = uploadId /\ ~s.completed}

\* multipartUpload.uploadPart(partNumber, body): raises for an unknown or
\* completed upload and for a part number that is not an integer >= 1.
uploadPart(ups, bucket, key, uploadId, partNumber, fault) ==
  IF fault = "uploadPart" THEN [t |-> "throw", msg |-> MsgInternal, uploads |-> ups]
  ELSE IF openSessions(ups, bucket, key, uploadId) = {}
       THEN [t |-> "throw", msg |-> MsgNoSuchUpload, uploads |-> ups]
  ELSE IF partNumber.nan \/ partNumber.v < 1
       THEN [t |-> "throw", msg |-> MsgInvalidPart, uploads |-> ups]
  ELSE [t |-> "ok", msg |-> "",
        uploads |-> {IF s \in openSessions(ups, bucket, key, uploadId)
                     THEN [s EXCEPT !.parts = @ \cup {partNumber.v}] ELSE s : s \in ups}]

\* multipartUpload.complete(parts): raises for an unknown or completed
\* upload and for parts that are not a non-empty list of uploaded parts;
\* otherwise the object is stored in that bucket.
complete(ups, objs, bucket, key, uploadId, parts, fault) ==
  IF fault = "complete" THEN [t |-> "throw", msg |-> MsgInternal, uploads |-> ups, objects |-> objs]
  ELSE IF openSessions(ups, bucket, key, uploadId) = {}
       THEN [t |-> "throw", msg |-> MsgNoSuchUpload, uploads |-> ups, objects |-> objs]
  ELSE IF \/ parts.t # "array"
          \/ Len(parts.items) = 0
          \/ \E s \in openSessions(ups, bucket, key, uploadId) :
                \E i \in 1..Len(parts.items) : parts.items[i] \notin s.parts
       THEN [t |-> "throw", msg |-> MsgInvalidPart, uploads |-> ups, objects |-> objs]
  ELSE [t |-> "ok", msg |-> "",
        uploads |-> {IF s \in openSessions(ups, bucket, key, uploadId)
                     THEN [s EXCEPT !.completed = TRUE] ELSE s : s \in ups},
        objects |-> objs \cup {<<bucket, key>>}]

\* -------------------------------------------------------------- responses
NoContentRange == [present |-> FALSE, unit |-> "", first |-> 0, last |-> 0, size |-> 0]
Response(status, fmt, msg) ==
  [status |-> status, fmt |-> fmt, msg |-> msg, etag |-> FALSE,
   contentRange |-> NoContentRange, servedFrom |-> "", allow |-> ""]
NoResponse == Response(0, "", <<>>)

Outcome(r, c, ups, objs) == [resp |-> r, calls |-> c, uploads |-> ups, objects |-> objs]

\* contentRange written with || in place of ??: an explicit end of 0 is lost.
contentRangeFalsyEnd(object) ==
  [present |-> TRUE, unit |-> "bytes", first |-> object.range.offset,
   last |-> IF object.range.hasEnd /\ object.range.end # 0 THEN object.range.end
            ELSE object.size - 1,
   size |-> object.size]

\* `bytes ${object.range.offset}-${object.range.end ?? object.size - 1}/${object.size}`
contentRange(object) ==
  [present |-> TRUE, unit |-> "bytes", first |-> object.range.offset,
   last |-> IF object.range.hasEnd THEN object.range.end ELSE object.size - 1,
   size |-> object.size]

\* headers.get('range') of the Fetch API: null when the header is not sent.
headersGet(present) == IF present THEN "value" ELSE "null"
\* c.req.header('range') of Hono: undefined when the header is not sent.
honoHeader(present) == IF present THEN "value" ELSE "undefined"

\* new Response(object.body, { headers, status }) after writeHttpMetadata,
\* the etag and the optional content-range have been set.
objectResponse(object, status, servedFrom) ==
  [status |-> status, fmt |-> IF object.hasBody THEN "stream" ELSE "none", msg |-> <<>>,
   etag |-> TRUE,
   contentRange |-> IF object.range.present THEN contentRange(object) ELSE NoContentRange,
   servedFrom |-> servedFrom, allow |-> ""]

\* ------------------------------------------------------------ index worker
createErrorResponse(message, status) == Response(status, "json", message)

\* objectNotFound with a message that does not name the object.
objectNotFoundUnnamed(objectName) ==
  createErrorResponse(<<"Object not found">>, 404)

objectNotFound(objectName) ==
  createErrorResponse(<<"Object '", objectName, "' not found">>, 404)

\* find with an assignment in place of ===: the first backend always matches.
getServerByNameAssigned(serverName) == SomePosition(BUCKET_POSITIONS[1])

\* getServerByName with a fallback: an unknown name yields the first backend.
getServerByNameOrFirst(serverName) ==
  LET hits == {i \in 1..Len(BUCKET_POSITIONS) : BUCKET_POSITIONS[i].shortName = serverName}
  IN  IF hits = {} THEN SomePosition(BUCKET_POSITIONS[1])
      ELSE SomePosition(BUCKET_POSITIONS[CHOOSE i \in hits : \A j \in hits : i <= j])

\* BUCKET_POSITIONS.find((position) => position.shortName === serverName)
getServerByName(serverName) ==
  LET hits == {i \in 1..Len(BUCKET_POSITIONS) : BUCKET_POSITIONS[i].shortName = serverName}
  IN  IF hits = {} THEN NoPosition
      ELSE SomePosition(BUCKET_POSITIONS[CHOOSE i \in hits : \A j \in hits : i <= j])

\* Status of a GET answered with an object.
indexStatus(object, rangeSent) ==
  IF ~object.hasBody THEN 304
  ELSE IF honoHeader(rangeSent) # "null" THEN 206
  ELSE 200

\* A catch clause of app.get that answers with the error's own message.
getFailedWithMessage(message) == createErrorResponse(<<message>>, 500)

\* catch (error) of app.get: the error is logged, the body is fixed.
getFailed(message) == createErrorResponse(<<"Error processing request">>, 500)

\* app.get("/:objectName")
indexGet(r, ups, objs, desc, fault) ==
  IF r.key = "" THEN Outcome(createErrorResponse(<<"Missing object name">>, 400), <<>>, ups, objs)
  ELSE
    LET userLocation == r.cf
        nearestPosition == findNearestPosition(userLocation, BUCKET_POSITIONS)
        bucketEnv == IF nearestPosition.t = "position" THEN nearestPosition.position.env
                     ELSE DEFAULT_BUCKET
        object == bucketGet(objs, bucketEnv, r.key, desc, fault)
        made == <<Call("get", bucketEnv, r.key, Absent, NaN, NoParts)>>
        failed == getFailed(MsgInternal)
    IN  IF object.t = "throw" THEN Outcome(failed, made, ups, objs)
        ELSE IF object.t = "null" THEN Outcome(objectNotFound(r.key), made, ups, objs)
        ELSE IF fault = "writeHttpMetadata" THEN Outcome(failed, made, ups, objs)
        ELSE Outcome(objectResponse(object.obj, indexStatus(object.obj, r.range),
                                    IF nearestPosition.t = "position"
                                    THEN nearestPosition.position.name ELSE "Default server"),
                     made, ups, objs)

\* app.post("/:objectName")
indexPost(r, ups, objs, fault) ==
  IF r.selector = Absent \/ r.selector = ""
  THEN Outcome(createErrorResponse(<<"Missing server name in X-Bucket-Name header">>, 400), <<>>, ups, objs)
  ELSE
    LET server == getServerByName(r.selector)
        bucket == server.position.env
        serverError == createErrorResponse(<<"Server error processing multipart upload">>, 500)
    IN
    IF server.t = "null"
    THEN Outcome(createErrorResponse(<<"Unknown server: ", r.selector>>, 400), <<>>, ups, objs)
    ELSE IF r.action = "mpu-create" THEN
      LET multipartUpload == createMultipartUpload(ups, bucket, r.key, fault)
          made == <<Call("createMultipartUpload", bucket, r.key, Absent, NaN, NoParts)>>
      IN  IF multipartUpload.t = "throw" THEN Outcome(serverError, made, ups, objs)
          ELSE Outcome(Response(200, "json", <<"key", r.key, "uploadId", multipartUpload.uploadId>>),
                       made, multipartUpload.uploads, objs)
    ELSE IF r.action = "mpu-complete" THEN
      IF r.uploadId = Absent \/ r.uploadId = ""
      THEN Outcome(createErrorResponse(<<"Missing uploadId parameter">>, 400), <<>>, ups, objs)
      ELSE
        LET resumed == <<Call("resumeMultipartUpload", bucket, r.key, r.uploadId, NaN, NoParts)>>
            completeBody == r.json
            object == complete(ups, objs, bucket, r.key, r.uploadId, completeBody.parts, fault)
            made == Append(resumed, Call("complete", bucket, r.key, r.uploadId, NaN, completeBody.parts))
        IN  IF fault = "resumeMultipartUpload" THEN Outcome(serverError, resumed, ups, objs)
            ELSE IF completeBody.t = "invalid"
            THEN Outcome(createErrorResponse(<<"Invalid JSON in request body">>, 400), resumed, ups, objs)
            ELSE IF \/ completeBody.t = "null"
                    \/ completeBody.parts.t = "undefined"
                    \/ completeBody.parts.t # "array"
            THEN Outcome(createErrorResponse(<<"Missing or invalid 'parts' in request body">>, 400),
                         resumed, ups, objs)
            ELSE IF object.t = "throw"
            THEN Outcome(createErrorResponse(<<object.msg>>, 400), made, ups, objs)
            ELSE Outcome([Response(200, "none", <<>>) EXCEPT !.etag = TRUE],
                         made, object.uploads, object.objects)
    ELSE Outcome(createErrorResponse(<<"Unknown action: ",
                                       IF r.action = Absent THEN "undefined" ELSE r.action>>, 400),
                 <<>>, ups, objs)

\* partUploadFailed without the inner catch: the failure reaches the outer one.
partUploadFailedOuter(message) ==
  createErrorResponse(<<"Server error processing part upload">>, 500)

\* catch (error) around uploadPart: createErrorResponse(error.message, 400)
partUploadFailed(message) == createErrorResponse(<<message>>, 400)

\* app.put("/:objectName")
indexPut(r, ups, objs, fault) ==
  IF r.selector = Absent \/ r.selector = ""
  THEN Outcome(createErrorResponse(<<"Missing server name in X-Bucket-Name header">>, 400), <<>>, ups, objs)
  ELSE
    LET server == getServerByName(r.selector)
        bucket == server.position.env
    IN
    IF server.t = "null"
    THEN Outcome(createErrorResponse(<<"Unknown server: ", r.selector>>, 400), <<>>, ups, objs)
    ELSE IF r.action = "mpu-uploadpart" THEN
      IF \/ ~r.partNumber.present \/ Len(r.partNumber.chars) = 0
         \/ r.uploadId = Absent \/ r.uploadId = ""
      THEN Outcome(createErrorResponse(<<"Missing partNumber or uploadId parameters">>, 400), <<>>, ups, objs)
      ELSE IF ~r.hasBody
      THEN Outcome(createErrorResponse(<<"Missing request body">>, 400), <<>>, ups, objs)
      ELSE
        LET partNumber == parseInt(r.partNumber.chars)
            resumed == <<Call("resumeMultipartUpload", bucket, r.key, r.uploadId, NaN, NoParts)>>
            uploadedPart == uploadPart(ups, bucket, r.key, r.uploadId, partNumber, fault)
            made == Append(resumed, Call("uploadPart", bucket, r.key, r.uploadId, partNumber, NoParts))
        IN  IF partNumber.nan \/ partNumber.v <= 0
            THEN Outcome(createErrorResponse(<<"Invalid part number">>, 400), <<>>, ups, objs)
            ELSE IF fault = "resumeMultipartUpload"
            THEN Outcome(createErrorResponse(<<"Server error processing part upload">>, 500),
                         resumed, ups, objs)
            ELSE IF uploadedPart.t = "throw"
            THEN Outcome(partUploadFailed(uploadedPart.msg), made, ups, objs)
            ELSE Outcome(Response(200, "json", <<"uploadedPart">>), made, uploadedPart.uploads, objs)
    ELSE Outcome(createErrorResponse(<<"Unknown action: ",
                                       IF r.action = Absent THEN "undefined" ELSE r.action>>, 400),
                 <<>>, ups, objs)

\* ------------------------------------------------------------- hono worker
honoJson(message, status) == Response(status, "json", message)

\* An exception no handler catches: Hono's default error handler.
honoUnhandled == Response(500, "text", <<"Internal Server Error">>)

objectNotFoundText(objectName) == Response(404, "text", <<objectName, " not found">>)

honoStatus(object, rangeSent) ==
  IF object.hasBody THEN (IF honoHeader(rangeSent) # "null" THEN 206 ELSE 200) ELSE 304

\* app.get('/:objectName') of hono.js
honoGet(r, ups, objs, desc, fault) ==
  IF r.key = "" THEN Outcome(honoJson(<<"Missing object">>, 400), <<>>, ups, objs)
  ELSE
    LET failed == honoJson(<<"There was an error processing the request">>, 500)
        userLocation == r.cf
        bucket == findNearestPositionReduce(userLocation, BUCKET_POSITIONS)
        object == bucketGet(objs, bucket.position.env, r.key, desc, fault)
        made == <<Call("get", bucket.position.env, r.key, Absent, NaN, NoParts)>>
    IN  \* c.env.CF.latitude with no CF binding: TypeError
        IF r.cf.t = "null" THEN Outcome(failed, <<>>, ups, objs)
        \* geolib raises on an undefined coordinate
        ELSE IF bucket.t = "throw" THEN Outcome(failed, <<>>, ups, objs)
        \* c.env[c.env.ENAM_BUCKET] is undefined: TypeError on .get
        ELSE IF bucket.t = "null" THEN Outcome(failed, <<>>, ups, objs)
        ELSE IF object.t = "throw" THEN Outcome(failed, made, ups, objs)
        ELSE IF object.t = "null" THEN Outcome(objectNotFoundText(r.key), made, ups, objs)
        ELSE IF fault = "writeHttpMetadata" THEN Outcome(failed, made, ups, objs)
        ELSE Outcome(objectResponse(object.obj, honoStatus(object.obj, r.range), ""), made, ups, objs)

\* app.post('/:objectName') of hono.js
honoPost(r, ups, objs, fault) ==
  IF r.selector = Absent \/ r.selector = ""
  THEN Outcome(honoJson(<<"Missing server name">>, 400), <<>>, ups, objs)
  ELSE
    LET server == getServerByName(r.selector)
        bucket == server.position.env
    IN
    IF server.t = "null"
    THEN Outcome(honoJson(<<"Unknown server ", r.selector>>, 400), <<>>, ups, objs)
    ELSE IF r.action = "mpu-create" THEN
      LET multipartUpload == createMultipartUpload(ups, bucket, r.key, fault)
          made == <<Call("createMultipartUpload", bucket, r.key, Absent, NaN, NoParts)>>
      IN  IF multipartUpload.t = "throw" THEN Outcome(honoUnhandled, made, ups, objs)
          ELSE Outcome(Response(200, "json", <<"key", r.key, "uploadId", multipartUpload.uploadId>>),
                       made, multipartUpload.uploads, objs)
    ELSE IF r.action = "mpu-complete" THEN
      IF r.uploadId = Absent \/ r.uploadId = ""
      THEN Outcome(honoJson(<<"Missing uploadId">>, 400), <<>>, ups, objs)
      ELSE
        LET resumed == <<Call("resumeMultipartUpload", bucket, r.key, r.uploadId, NaN, NoParts)>>
            completeBody == r.json
            object == complete(ups, objs, bucket, r.key, r.uploadId, completeBody.parts, fault)
            made == Append(resumed, Call("complete", bucket, r.key, r.uploadId, NaN, completeBody.parts))
        IN  IF fault = "resumeMultipartUpload" THEN Outcome(honoUnhandled, resumed, ups, objs)
            ELSE IF completeBody.t = "invalid" THEN Outcome(honoUnhandled, resumed, ups, objs)
            ELSE IF completeBody.t = "null"
            THEN Outcome(honoJson(<<"Missing or incomplete body">>, 400), resumed, ups, objs)
            ELSE IF object.t = "throw" THEN Outcome(honoJson(<<object.msg>>, 400), made, ups, objs)
            ELSE Outcome([Response(200, "none", <<>>) EXCEPT !.etag = TRUE],
                         made, object.uploads, object.objects)
    ELSE Outcome(honoJson(<<"Unknown action ", IF r.action = Absent THEN "undefined" ELSE r.action,
                            " for POST">>, 400), <<>>, ups, objs)

\* app.put('/:objectName') of hono.js
honoPut(r, ups, objs, fault) ==
  IF r.selector = Absent \/ r.selector = ""
  THEN Outcome(honoJson(<<"Missing server name">>, 400), <<>>, ups, objs)
  ELSE
    LET server == getServerByName(r.selector)
        bucket == server.position.env
    IN
    IF server.t = "null"
    THEN Outcome(honoJson(<<"Unknown server ", r.selector>>, 400), <<>>, ups, objs)
    ELSE IF r.action = "mpu-uploadpart" THEN
      IF \/ ~r.partNumber.present \/ Len(r.partNumber.chars) = 0
         \/ r.uploadId = Absent \/ r.uploadId = ""
      THEN Outcome(honoJson(<<"Missing partNumber or uploadId">>, 400), <<>>, ups, objs)
      ELSE IF ~r.hasBody
      THEN Outcome(honoJson(<<"Missing request body">>, 400), <<>>, ups, objs)
      ELSE
        LET partNumber == parseInt(r.partNumber.chars)
            resumed == <<Call("resumeMultipartUpload", bucket, r.key, r.uploadId, NaN, NoParts)>>
            uploadedPart == uploadPart(ups, bucket, r.key, r.uploadId, partNumber, fault)
            made == Append(resumed, Call("uploadPart", bucket, r.key, r.uploadId, partNumber, NoParts))
        IN  IF fault = "resumeMultipartUpload" THEN Outcome(honoUnhandled, resumed, ups, objs)
            ELSE IF uploadedPart.t = "throw"
            THEN Outcome(honoJson(<<uploadedPart.msg>>, 400), made, ups, objs)
            ELSE Outcome(Response(200, "json", <<"uploadedPart">>), made, uploadedPart.uploads, objs)
    ELSE Outcome(honoJson(<<"Unknown action ", IF r.action = Absent THEN "undefined" ELSE r.action,
                            " for PUT">>, 400), <<>>, ups, objs)

\* ------------------------------------------------------------ fetch worker
textResponse(message, status) == Response(status, "text", message)

\* An exception that leaves fetch(): the Workers runtime answers 500.
fetchUnhandled == Response(500, "text", <<"Worker threw exception">>)

fetchStatus(object, rangeSent) ==
  IF object.hasBody THEN (IF headersGet(rangeSent) # "null" THEN 206 ELSE 200) ELSE 304

\* case 'GET' of fetch()
fetchGet(r, ups, objs, desc, fault) ==
  IF r.key = "" THEN Outcome(textResponse(<<"Missing object">>, 400), <<>>, ups, objs)
  ELSE
    LET failed == textResponse(<<"There was an error processing the request">>, 500)
        userLocation == r.cf
        nearest == findNearestPositionReduce(userLocation, BUCKET_POSITIONS)
        bucket == IF nearest.t = "position" THEN nearest.position.env ELSE "ENAM_BUCKET"
        object == bucketGet(objs, bucket, r.key, desc, fault)
        made == <<Call("get", bucket, r.key, Absent, NaN, NoParts)>>
    IN  \* request.cf.latitude with no cf object: TypeError
        IF r.cf.t = "null" THEN Outcome(failed, <<>>, ups, objs)
        \* geolib raises on an undefined coordinate
        ELSE IF nearest.t = "throw" THEN Outcome(failed, <<>>, ups, objs)
        ELSE IF object.t = "throw" THEN Outcome(failed, made, ups, objs)
        ELSE IF object.t = "null" THEN Outcome(objectNotFoundText(r.key), made, ups, objs)
        ELSE IF fault = "writeHttpMetadata" THEN Outcome(failed, made, ups, objs)
        ELSE Outcome(objectResponse(object.obj, fetchStatus(object.obj, r.range), ""), made, ups, objs)

\* case 'POST' of fetch()
fetchPost(r, ups, objs, fault) ==
  IF r.selector = Absent
  THEN Outcome(textResponse(<<"Missing server name">>, 400), <<>>, ups, objs)
  ELSE
    LET server == getServerByName(r.selector)
        bucket == server.position.env
    IN
    IF server.t = "null"
    THEN Outcome(textResponse(<<"Unknown server ", r.selector>>, 400), <<>>, ups, objs)
    ELSE IF r.action = "mpu-create" THEN
      LET multipartUpload == createMultipartUpload(ups, bucket, r.key, fault)
          made == <<Call("createMultipartUpload", bucket, r.key, Absent, NaN, NoParts)>>
      IN  IF multipartUpload.t = "throw" THEN Outcome(fetchUnhandled, made, ups, objs)
          ELSE Outcome(Response(200, "json", <<"key", r.key, "uploadId", multipartUpload.uploadId>>),
                       made, multipartUpload.uploads, objs)
    ELSE IF r.action = "mpu-complete" THEN
      IF r.uploadId = Absent
      THEN Outcome(textResponse(<<"Missing uploadId">>, 400), <<>>, ups, objs)
      ELSE
        LET resumed == <<Call("resumeMultipartUpload", bucket, r.key, r.uploadId, NaN, NoParts)>>
            completeBody == r.json
            object == complete(ups, objs, bucket, r.key, r.uploadId, completeBody.parts, fault)
            made == Append(resumed, Call("complete", bucket, r.key, r.uploadId, NaN, completeBody.parts))
        IN  IF fault = "resumeMultipartUpload" THEN Outcome(fetchUnhandled, resumed, ups, objs)
            ELSE IF completeBody.t = "invalid" THEN Outcome(fetchUnhandled, resumed, ups, objs)
            ELSE IF completeBody.t = "null"
            THEN Outcome(textResponse(<<"Missing or incomplete body">>, 400), resumed, ups, objs)
            ELSE IF object.t = "throw" THEN Outcome(textResponse(<<object.msg>>, 400), made, ups, objs)
            ELSE Outcome([Response(200, "none", <<>>) EXCEPT !.etag = TRUE],
                         made, object.uploads, object.objects)
    ELSE Outcome(textResponse(<<"Unknown action ", IF r.action = Absent THEN "null" ELSE r.action,
                                " for POST">>, 400), <<>>, ups, objs)

\* case 'PUT' of fetch()
fetchPut(r, ups, objs, fault) ==
  IF r.selector = Absent
  THEN Outcome(textResponse(<<"Missing server name">>, 400), <<>>, ups, objs)
  ELSE
    LET server == getServerByName(r.selector)
        bucket == server.position.env
    IN
    IF server.t = "null"
    THEN Outcome(textResponse(<<"Unknown server ", r.selector>>, 400), <<>>, ups, objs)
    ELSE IF r.action = "mpu-uploadpart" THEN
      IF ~r.partNumber.present \/ r.uploadId = Absent
      THEN Outcome(textResponse(<<"Missing partNumber or uploadId">>, 400), <<>>, ups, objs)
      ELSE IF ~r.hasBody
      THEN Outcome(textResponse(<<"Missing request body">>, 400), <<>>, ups, objs)
      ELSE
        LET partNumber == parseInt(r.partNumber.chars)
            resumed == <<Call("resumeMultipartUpload", bucket, r.key, r.uploadId, NaN, NoParts)>>
            uploadedPart == uploadPart(ups, bucket, r.key, r.uploadId, partNumber, fault)
            made == Append(resumed, Call("uploadPart", bucket, r.key, r.uploadId, partNumber, NoParts))
        IN  IF fault = "resumeMultipartUpload" THEN Outcome(fetchUnhandled, resumed, ups, objs)
            ELSE IF uploadedPart.t = "throw"
            THEN Outcome(textResponse(<<uploadedPart.msg>>, 400), made, ups, objs)
            ELSE Outcome(Response(200, "json", <<"uploadedPart">>), made, uploadedPart.uploads, objs)
    ELSE Outcome(textResponse(<<"Unknown action ", IF r.action = Absent THEN "null" ELSE r.action,
                                " for PUT">>, 400), <<>>, ups, objs)

\* ---------------------------------------------------------------- dispatch
\* The Authorization header of a request: "missing", "malformed" (not of the
\* form "Bearer <token>"), or a well-formed bearer token that the token store
\* makes the gate "allow" or "deny".
AuthStates == {"allow", "deny", "missing", "malformed"}

\* bearerAuth answers 401 when the header is missing or the token is refused.
unauthorized == Response(401, "text", <<"Unauthorized">>)

\* bearerAuth answers 400 when the header is not "Bearer <token>".
invalidAuthorization == Response(400, "text", <<"Bad Request">>)

\* A gate mounted on a path no object request matches: nothing is refused.
bearerAuthUnmounted(r) == NoResponse

\* app.use("*", bearerAuth({...})): the response of the gate, or NoResponse
\* when the request goes on to the routes.
bearerAuth(r) ==
  IF r.auth = "missing" THEN unauthorized
  ELSE IF r.auth = "malformed" THEN invalidAuthorization
  ELSE IF r.auth = "deny" THEN unauthorized
  ELSE NoResponse

\* The Authorization check at the top of fetch().
fetchAuth(r) ==
  IF r.auth = "missing" THEN Response(401, "text", <<"Missing Authorization header">>)
  ELSE IF r.auth = "malformed" THEN Response(401, "text", <<"Invalid Authorization header">>)
  ELSE IF r.auth = "deny" THEN Response(401, "text", <<"Invalid Token">>)
  ELSE NoResponse

\* Hono: a request no route matches gets the default 404; the pattern
\* "/:objectName" needs a non-empty path segment, so "/" matches no route.
honoNotFound == Response(404, "text", <<"404 Not Found">>)

\* The index worker: bearerAuth on "*", then the get / post / put routes.
indexApp(r, ups, objs, desc, fault) ==
  IF bearerAuth(r) # NoResponse THEN Outcome(bearerAuth(r), <<>>, ups, objs)
  ELSE IF r.key = "" THEN Outcome(honoNotFound, <<>>, ups, objs)
  ELSE IF r.method = "GET" THEN indexGet(r, ups, objs, desc, fault)
  ELSE IF r.method = "POST" THEN indexPost(r, ups, objs, fault)
  ELSE IF r.method = "PUT" THEN indexPut(r, ups, objs, fault)
  ELSE Outcome(honoNotFound, <<>>, ups, objs)

\* The hono.js worker: token middleware on '*', then the routes.
honoApp(r, ups, objs, desc, fault) ==
  IF bearerAuth(r) # NoResponse THEN Outcome(bearerAuth(r), <<>>, ups, objs)
  ELSE IF r.key = "" THEN Outcome(honoNotFound, <<>>, ups, objs)
  ELSE IF r.method = "GET" THEN honoGet(r, ups, objs, desc, fault)
  ELSE IF r.method = "POST" THEN honoPost(r, ups, objs, fault)
  ELSE IF r.method = "PUT" THEN honoPut(r, ups, objs, fault)
  ELSE Outcome(honoNotFound, <<>>, ups, objs)

\* fetch(): the Authorization check, then the switch on request.method.
fetch(r, ups, objs, desc, fault) ==
  IF fetchAuth(r) # NoResponse THEN Outcome(fetchAuth(r), <<>>, ups, objs)
  ELSE IF r.method = "GET" THEN fetchGet(r, ups, objs, desc, fault)
  ELSE IF r.method = "POST" THEN fetchPost(r, ups, objs, fault)
  ELSE IF r.method = "PUT" THEN fetchPut(r, ups, objs, fault)
  ELSE Outcome([textResponse(<<"Method Not Allowed">>, 405) EXCEPT !.allow = "GET, POST, PUT"],
               <<>>, ups, objs)

\* A dispatcher that runs the handler a second time when it answered 5xx.
serveRetrying(v, r, ups, objs, desc, fault) ==
  LET run(u, o) == IF v = "index" THEN indexApp(r, u, o, desc, fault)
                   ELSE IF v = "hono" THEN honoApp(r, u, o, desc, fault)
                   ELSE fetch(r, u, o, desc, fault)
      first == run(ups, objs)
      second == run(first.uploads, first.objects)
  IN  IF first.resp.status >= 500
      THEN [second EXCEPT !.calls = first.calls \o second.calls]
      ELSE first

serve(v, r, ups, objs, desc, fault) ==
  IF v = "index" THEN indexApp(r, ups, objs, desc, fault)
  ELSE IF v = "hono" THEN honoApp(r, ups, objs, desc, fault)
  ELSE fetch(r, ups, objs, desc, fault)

\* ----------------------------------------------------------------- gateway
Request(method, key, auth, cf, range, selector, action, uploadId, partNumber, hasBody, json) ==
  [method |-> method, key |-> key, auth |-> auth, cf |-> cf, range |-> range,
   selector |-> selector, action |-> action, uploadId |-> uploadId,
   partNumber |-> partNumber, hasBody |-> hasBody, json |-> json]

\* What the buckets answered while the request was handled: the result of
\* the get call, and what the last operation invoked raised.
NoFetch == [t |-> "none", obj |-> NoObject]
NoRaise == [op |-> "", msg |-> ""]
Raise(op, msg) == [op |-> op, msg |-> msg]

answerOfGet(made, objs, desc, fault) ==
  IF Len(made) > 0 /\ made[1].op = "get"
  THEN bucketGet(objs, made[1].bucket, made[1].key, desc, fault)
  ELSE NoFetch

\* What the bucket operation c raises when invoked on the buckets' state.
raisedByCall(c, ups, objs, desc, fault) ==
  CASE c.op = "get" ->
         IF bucketGet(objs, c.bucket, c.key, desc, fault).t = "throw"
         THEN Raise("get", MsgInternal)
         ELSE IF bucketGet(objs, c.bucket, c.key, desc, fault).t = "object"
                 /\ fault = "writeHttpMetadata"
         THEN Raise("writeHttpMetadata", MsgInternal)
         ELSE NoRaise
    [] c.op = "createMultipartUpload" ->
         LET res == createMultipartUpload(ups, c.bucket, c.key, fault)
         IN  IF res.t = "throw" THEN Raise(c.op, res.msg) ELSE NoRaise
    [] c.op = "resumeMultipartUpload" ->
         IF fault = "resumeMultipartUpload" THEN Raise(c.op, MsgInternal) ELSE NoRaise
    [] c.op = "uploadPart" ->
         LET res == uploadPart(ups, c.bucket, c.key, c.uploadId, c.partNumber, fault)
         IN  IF res.t = "throw" THEN Raise(c.op, res.msg) ELSE NoRaise
    [] c.op = "complete" ->
         LET res == complete(ups, objs, c.bucket, c.key, c.uploadId, c.parts, fault)
         IN  IF res.t = "throw" THEN Raise(c.op, res.msg) ELSE NoRaise

raisedBy(made, ups, objs, desc, fault) ==
  IF Len(made) = 0 THEN NoRaise
  ELSE raisedByCall(made[Len(made)], ups, objs, desc, fault)

\* The position of the first operation of made that raised, 0 when none did.
firstFailure(made, ups, objs, desc, fault) ==
  LET failures == {i \in 1..Len(made) : raisedByCall(made[i], ups, objs, desc, fault) # NoRaise}
  IN  IF failures = {} THEN 0 ELSE CHOOSE i \in failures : \A k \in failures : i <= k

\* The handler of request r runs against the buckets as they are now.
Answer(r, desc, fault) ==
  LET out == serve(variant, r, uploads, objects, desc, fault)
  IN  /\ Cardinality(out.uploads) <= MaxUploads
      /\ req' = r
      /\ resp' = out.resp
      /\ calls' = out.calls
      /\ uploads' = out.uploads
      /\ objects' = out.objects
      /\ fetched' = answerOfGet(out.calls, objects, desc, fault)
      /\ raised' = raisedBy(out.calls, uploads, objects, desc, fault)
      /\ failedAt' = firstFailure(out.calls, uploads, objects, desc, fault)

\* One request, from arrival to the response.
Handle(r, desc, fault) ==
  /\ Answer(r, desc, fault)
  /\ UNCHANGED <<variant, resolverVars, instanceVars>>

Get ==
  /\ req = NoRequest
  /\ \E auth \in AuthStates, key \in Keys, cf \in ClientLocations, range \in BOOLEAN,
     selector \in {Absent, "APAC"},
     desc \in Descriptors, fault \in {"none", "get", "writeHttpMetadata"} :
    \* a GET that also carries X-Bucket-Name: tried on plain downloads only
    /\ selector # Absent => (auth = "allow" /\ key = Key /\ ~range /\ fault = "none")
    /\ Handle(Request("GET", key, auth, cf, range, selector, Absent, Absent, NoParam, FALSE,
                      NoRequest.json), desc, fault)

Post ==
  /\ req = NoRequest
  /\ \E auth \in AuthStates, key \in Keys, selector \in Selectors, action \in Actions,
     uploadId \in UploadIds, json \in JsonBodies,
     cf \in {NullLocation, Location(Num(35 * Deg), Num(139 * Deg))},
     fault \in {"none", "createMultipartUpload", "resumeMultipartUpload", "complete"} :
    /\ action # "mpu-complete" => (uploadId = Absent /\ json = NoRequest.json)
    \* an upload request from a located client: tried on well-formed requests only
    /\ cf # NullLocation => (auth = "allow" /\ key = Key /\ selector = "ENAM" /\ fault = "none"
                              /\ json \in {NoRequest.json, Json("object", "array", <<1>>)})
    /\ Handle(Request("POST", key, auth, cf, FALSE, selector, action, uploadId,
                      NoParam, json.t # "invalid", json), NoObject, fault)

Put ==
  /\ req = NoRequest
  /\ \E auth \in AuthStates, key \in Keys, selector \in Selectors, action \in Actions,
     uploadId \in UploadIds, partNumber \in PartNumberStrings, hasBody \in BOOLEAN,
     cf \in {NullLocation, Location(Num(35 * Deg), Num(139 * Deg))},
     fault \in {"none", "resumeMultipartUpload", "uploadPart"} :
    /\ action # "mpu-uploadpart" => (uploadId = Absent /\ partNumber = NoParam /\ ~hasBody)
    /\ cf # NullLocation => (auth = "allow" /\ key = Key /\ selector = "ENAM" /\ fault = "none"
                              /\ partNumber \in {NoParam, PartOne} /\ (hasBody <=> action = "mpu-uploadpart"))
    /\ Handle(Request("PUT", key, auth, cf, FALSE, selector, action, uploadId,
                      partNumber, hasBody, NoRequest.json), NoObject, fault)

Other ==
  /\ req = NoRequest
  /\ \E auth \in AuthStates, key \in Keys :
    Handle(Request("DELETE", key, auth, NullLocation, FALSE, Absent, Absent, Absent, NoParam,
                   FALSE, NoRequest.json), NoObject, "none")

\* The response has been sent; nothing of the request is kept.
Respond ==
  /\ req # NoRequest
  /\ req' = NoRequest
  /\ resp' = NoResponse
  /\ calls' = <<>>
  /\ fetched' = NoFetch
  /\ raised' = NoRaise
  /\ failedAt' = 0
  /\ servedBy' = 0
  /\ UNCHANGED <<variant, uploads, objects, resolverVars, pending, createdVia>>

Init ==
  /\ variant \in Variants
  /\ req = NoRequest
  /\ resp = NoResponse
  /\ calls = <<>>
  /\ uploads = {}
  /\ objects = {}
  /\ fetched = NoFetch
  /\ raised = NoRaise
  /\ failedAt = 0
  /\ pending = [i \in Instances |-> NoRequest]
  /\ servedBy = 0
  /\ createdVia = {}
  /\ phase = "idle"
  /\ inLocation = NullLocation
  /\ inPositions = <<>>
  /\ impl = ""
  /\ outNearest = NoPosition

Next == Get \/ Post \/ Put \/ Other \/ Respond

Spec == Init /\ [][Next]_vars

\* ------------------------------------------------------ several instances
\* Instances of the worker serve requests concurrently.  A handler holds
\* nothing but its request until its bucket operation runs: an instance
\* accepts a request, and the bucket operations of the accepted requests
\* then run in any order.
InstanceRequests ==
  {Request("POST", Key, "allow", NullLocation, FALSE, "ENAM", "mpu-create", Absent, NoParam,
           FALSE, NoRequest.json),
   Request("GET", Key, "allow", Location(Num(40 * Deg), Num(-75 * Deg)), FALSE, Absent, Absent,
           Absent, NoParam, FALSE, NoRequest.json)}
  \cup {Request("PUT", Key, "allow", NullLocation, FALSE, selector, "mpu-uploadpart",
                 UploadIdOf(1), PartOne, TRUE, NoRequest.json) : selector \in {"ENAM", "APAC"}}
  \cup {Request("POST", Key, "allow", NullLocation, FALSE, "ENAM", "mpu-complete",
                 UploadIdOf(1), NoParam, TRUE, Json("object", "array", <<1>>))}

Accept ==
  /\ req = NoRequest
  /\ \E i \in Instances, r \in InstanceRequests :
       /\ pending[i] = NoRequest
       /\ pending' = [pending EXCEPT ![i] = r]
  /\ UNCHANGED <<variant, req, resp, calls, uploads, objects, fetched, raised, failedAt,
                 servedBy, createdVia, resolverVars>>

Serve ==
  /\ req = NoRequest
  /\ \E i \in Instances, fault \in {"none", "uploadPart"} :
       /\ pending[i] # NoRequest
       /\ Answer(pending[i], [hasBody |-> TRUE, size |-> 1000, range |-> NoRange], fault)
       /\ pending' = [pending EXCEPT ![i] = NoRequest]
       /\ servedBy' = i
       /\ createdVia' = createdVia \cup
            {<<s.uploadId, i>> : s \in {t \in uploads' : \A u \in uploads : u.uploadId # t.uploadId}}
  /\ UNCHANGED <<variant, resolverVars>>

InitInstances ==
  /\ variant \in Variants
  /\ req = NoRequest
  /\ resp = NoResponse
  /\ calls = <<>>
  /\ uploads = {}
  /\ objects = {}
  /\ fetched = NoFetch
  /\ raised = NoRaise
  /\ failedAt = 0
  /\ pending = [i \in Instances |-> NoRequest]
  /\ servedBy = 0
  /\ createdVia = {}
  /\ phase = "idle"
  /\ inLocation = NullLocation
  /\ inPositions = <<>>
  /\ impl = ""
  /\ outNearest = NoPosition

NextInstances == Accept \/ Serve \/ Respond

SpecInstances == InitInstances /\ [][NextInstances]_vars

\* ------------------------------------------------------- resolver harness
\* findNearestPosition applied to registries of up to MaxReg backends placed
\* on a few grid points, for every client location on the same points.
GridPoints ==
  { <<0, 0>>, <<1 * Deg, 1 * Deg>>, <<9 * Deg, 9 * Deg>>, <<10 * Deg, 10 * Deg>>,
    <<5 * Deg, 1 * Deg>>, <<9 * Deg, 1 * Deg>> }
EnvOf(i) == <<"A", "B", "C", "D">>[i]
Registries ==
  UNION { { [i \in 1..n |-> [latitude |-> f[i][1], longitude |-> f[i][2], env |-> EnvOf(i),
                             name |-> EnvOf(i), shortName |-> EnvOf(i)]] :
              f \in [1..n -> GridPoints] } : n \in 0..MaxReg }
HarnessLocations ==
  {NullLocation, Location(Undef, Undef)} \cup {Location(Num(p[1]), Num(p[2])) : p \in GridPoints}

InitNearest ==
  /\ variant = "index"
  /\ req = NoRequest
  /\ resp = NoResponse
  /\ calls = <<>>
  /\ uploads = {}
  /\ objects = {}
  /\ fetched = NoFetch
  /\ raised = NoRaise
  /\ failedAt = 0
  /\ pending = [i \in Instances |-> NoRequest]
  /\ servedBy = 0
  /\ createdVia = {}
  /\ phase = "input"
  /\ inLocation \in HarnessLocations
  /\ inPositions \in Registries
  /\ impl = ""
  /\ outNearest = NoPosition

ResolveLoop ==
  /\ phase = "input"
  /\ phase' = "done"
  /\ impl' = "loop"
  /\ outNearest' = findNearestPosition(inLocation, inPositions)
  /\ UNCHANGED <<gatewayVars, inLocation, inPositions>>

ResolveReduce ==
  /\ phase = "input"
  /\ phase' = "done"
  /\ impl' = "reduce"
  /\ outNearest' = findNearestPositionReduce(inLocation, inPositions)
  /\ UNCHANGED <<gatewayVars, inLocation, inPositions>>

NextNearest == ResolveLoop \/ ResolveReduce

SpecNearest == InitNearest /\ [][NextNearest]_vars

\* ================================================================= claims
Admitted == req # NoRequest /\ req.auth = "allow"
\* The request reaches a handler: Hono routes need a non-empty key.
Routed == Admitted /\ (variant = "fetch" \/ req.key # "")
Concrete(loc) == loc.t = "object" /\ loc.latitude.t = "number" /\ loc.longitude.t = "number"
LocationUnavailable(r) ==
  r.cf.t = "null" \/ r.cf.latitude.t = "undefined" \/ r.cf.longitude.t = "undefined"
KnownSelector(s) == \E i \in 1..Len(BUCKET_POSITIONS) : BUCKET_POSITIONS[i].shortName = s
Ops(c) == {c[i].op : i \in 1..Len(c)}
HarnessDistance(i) ==
  DistanceDm[<<inLocation.latitude.v, inLocation.longitude.v,
               inPositions[i].latitude, inPositions[i].longitude>>]

\* C1: for a non-empty registry and a concrete client coordinate (0 included),
\* findNearestPosition returns the backend at minimal distance, and among
\* backends at the minimal distance the first in registry order.
C1_NearestIsFirstMinimal ==
  (phase = "done" /\ Len(inPositions) > 0 /\ Concrete(inLocation)) =>
    /\ outNearest.t = "position"
    /\ \E i \in 1..Len(inPositions) :
         /\ outNearest.position = inPositions[i]
         /\ \A j \in 1..Len(inPositions) :
              /\ HarnessDistance(j) >= HarnessDistance(i)
              /\ j < i => HarnessDistance(j) > HarnessDistance(i)

\* C2: a GET with a non-empty key whose client location is unavailable calls
\* get on the default backend, exactly once, and is not answered 500 unless
\* the bucket itself failed.
C2_NoLocationUsesDefault ==
  (Routed /\ req.method = "GET" /\ req.key # "" /\ LocationUnavailable(req)) =>
    /\ Len(calls) = 1
    /\ calls[1].op = "get"
    /\ calls[1].bucket = DEFAULT_BUCKET
    /\ resp.status = 500 => raised # NoRaise

\* C3: a GET answered from an object descriptor has status 304 when the
\* descriptor has no body, else 206 exactly when the request carried a Range
\* header, else 200.
C3_StatusSelection ==
  (Routed /\ req.method = "GET" /\ fetched.t = "object" /\ raised = NoRaise) =>
    resp.status = (IF ~fetched.obj.hasBody THEN 304 ELSE IF req.range THEN 206 ELSE 200)

\* C4: a GET answered from an object descriptor carries content-range exactly
\* when the descriptor has an applied range, and the header is
\* bytes offset-end/size with end the explicit end (0 included) or size - 1.
C4_ContentRange ==
  (Routed /\ req.method = "GET" /\ fetched.t = "object" /\ raised = NoRaise) =>
    /\ resp.contentRange.present <=> fetched.obj.range.present
    /\ fetched.obj.range.present =>
         resp.contentRange =
           [present |-> TRUE, unit |-> "bytes", first |-> fetched.obj.range.offset,
            last |-> IF fetched.obj.range.hasEnd THEN fetched.obj.range.end
                     ELSE fetched.obj.size - 1,
            size |-> fetched.obj.size]

C4_Witness ==
  /\ Routed /\ req.method = "GET" /\ fetched.t = "object" /\ raised = NoRaise
  /\ fetched.obj.range.present /\ fetched.obj.range.hasEnd /\ fetched.obj.range.end = 0
  /\ resp.contentRange.present /\ resp.contentRange.last = 0

C6_CompleteNeedsParts ==
  /\ \A i \in 1..Len(calls) :
       calls[i].op = "complete" => (calls[i].parts.t = "array" /\ Len(calls[i].parts.items) > 0)
  /\ (/\ Routed /\ req.method = "POST" /\ req.action = "mpu-complete"
      /\ KnownSelector(req.selector) /\ req.uploadId # Absent
      /\ req.json.t = "object"
      /\ (req.json.parts.t # "array" \/ Len(req.json.parts.items) = 0)
      /\ raised.op # "resumeMultipartUpload")
     => resp.status = 400

\* C7: uploadPart is only ever called with an integer part number >= 1, and a
\* mpu-uploadpart whose partNumber is missing, not a number, 0 or negative,
\* whose uploadId is missing, or that has no body is answered 400.
C7_UploadPartNeedsValidNumber ==
  /\ \A i \in 1..Len(calls) :
       calls[i].op = "uploadPart" => (~calls[i].partNumber.nan /\ calls[i].partNumber.v >= 1)
  /\ (/\ Routed /\ req.method = "PUT" /\ req.action = "mpu-uploadpart"
      /\ KnownSelector(req.selector)
      /\ \/ ~req.partNumber.present
         \/ parseInt(req.partNumber.chars).nan
         \/ parseInt(req.partNumber.chars).v <= 0
         \/ req.uploadId = Absent
         \/ ~req.hasBody)
     => (resp.status = 400 /\ "uploadPart" \notin Ops(calls))

\* C8 as stated: whenever createMultipartUpload, resumeMultipartUpload,
\* uploadPart or complete raises, the response is 400 with the backend's
\* message verbatim.
C8_BackendFailureIs400 ==
  (Routed /\ raised.op \in {"createMultipartUpload", "resumeMultipartUpload", "uploadPart", "complete"}) =>
    (resp.status = 400 /\ resp.msg = <<raised.msg>>)

\* C8 as amended: when uploadPart or complete raises, the response is 400 with
\* the backend's message verbatim; when createMultipartUpload or
\* resumeMultipartUpload raises, the response is a 500 without that message.
C8_PartAndCompleteFailureIs400 ==
  /\ (Routed /\ raised.op \in {"uploadPart", "complete"}) =>
       (resp.status = 400 /\ resp.msg = <<raised.msg>>)
  /\ (Routed /\ raised.op \in {"createMultipartUpload", "resumeMultipartUpload"}) =>
       (resp.status = 500 /\ \A i \in 1..Len(resp.msg) : resp.msg[i] # raised.msg)

C8_Witness ==
  /\ Routed /\ variant = "index" /\ req.method = "PUT"
  /\ raised = Raise("uploadPart", MsgNoSuchUpload)
  /\ resp.status = 400 /\ resp.msg = <<MsgNoSuchUpload>>

\* C9: a GET with an empty object key is answered 400 and invokes no bucket
\* operation.
C9_EmptyKeyIs400 ==
  (Admitted /\ req.method = "GET" /\ req.key = "") =>
    (resp.status = 400 /\ calls = <<>>)

\* C10: a GET whose bucket get returns null is answered 404 with a body that
\* contains the object key, and with no etag, content-range or x-served-from.
C10_NullObjectIs404 ==
  (Routed /\ req.method = "GET" /\ fetched.t = "null") =>
    /\ resp.status = 404
    /\ \E i \in 1..Len(resp.msg) : resp.msg[i] = req.key
    /\ ~resp.etag
    /\ ~resp.contentRange.present
    /\ resp.servedFrom = ""

C10_Witness ==
  /\ Routed /\ variant = "index" /\ req.method = "GET" /\ req.key = Key
  /\ fetched.t = "null" /\ Len(calls) = 1 /\ resp.status = 404

\* C11: a GET with a non-empty key during which the bucket's get or the
\* metadata writer raises is answered 500 with the worker's fixed error body,
\* which does not contain the message of the error raised.
C11_GetFailureIs500 ==
  (Routed /\ req.method = "GET" /\ req.key # "" /\ raised.op \in {"get", "writeHttpMetadata"}) =>
    /\ resp.status = 500
    /\ resp.msg \in {<<"Error processing request">>, <<"There was an error processing the request">>}
    /\ \A i \in 1..Len(resp.msg) : resp.msg[i] # raised.msg
    /\ ~resp.etag /\ ~resp.contentRange.present

C11_Witness ==
  /\ Routed /\ variant = "index" /\ req.method = "GET" /\ req.key = Key
  /\ fetched.t = "object" /\ raised = Raise("writeHttpMetadata", MsgInternal)
  /\ resp.status = 500 /\ resp.msg = <<"Error processing request">>

\* C12: a request whose method is not GET, POST or PUT is answered 405 with an
\* Allow header listing the supported methods, and invokes no bucket
\* operation.
C12_UnsupportedMethodIs405 ==
  (Admitted /\ req.method \notin {"GET", "POST", "PUT"}) =>
    /\ resp.status = 405
    /\ resp.allow = "GET, POST, PUT"
    /\ calls = <<>>

C14_ValidationBeforeBackend ==
  (Routed /\ resp.status = 400 /\ raised = NoRaise) => calls = <<>>

\* C15: while one request is handled each bucket operation is invoked at most
\* once, at most two operations are invoked in all, and no operation is
\* invoked after one that raised.
C15_NoRetry ==
  /\ Len(calls) <= 2
  /\ \A i, j \in 1..Len(calls) : i # j => calls[i].op # calls[j].op
  /\ Ops(calls) \subseteq {"get", "createMultipartUpload", "resumeMultipartUpload",
                            "uploadPart", "complete"}
  /\ failedAt \in {0, Len(calls)}

C15_Witness ==
  /\ Routed /\ req.method = "PUT" /\ Len(calls) = 2
  /\ calls[1].op = "resumeMultipartUpload" /\ calls[2].op = "uploadPart"
  /\ failedAt = 2 /\ raised.op = "uploadPart" /\ resp.status = 400

\* The bucket the registry gives for a selector.
RegistryEnv(selector) ==
  (CHOOSE p \in {BUCKET_POSITIONS[i] : i \in 1..Len(BUCKET_POSITIONS)} : p.shortName = selector).env
ValidPartUpload(r) ==
  /\ r # NoRequest /\ r.auth = "allow" /\ r.method = "PUT" /\ r.key # ""
  /\ r.action = "mpu-uploadpart" /\ r.hasBody /\ KnownSelector(r.selector)
  /\ r.uploadId \notin {Absent, ""} /\ r.partNumber.present
  /\ ~parseInt(r.partNumber.chars).nan /\ parseInt(r.partNumber.chars).v >= 1

ClientDistance(cf, i) ==
  DistanceDm[<<cf.latitude.v, cf.longitude.v,
               BUCKET_POSITIONS[i].latitude, BUCKET_POSITIONS[i].longitude>>]
\* The buckets a client resolves to: the nearest, or the default when it has
\* no location.
ResolvedBuckets(cf) ==
  IF Concrete(cf)
  THEN {BUCKET_POSITIONS[i].env : i \in {k \in 1..Len(BUCKET_POSITIONS) :
          \A j \in 1..Len(BUCKET_POSITIONS) : ClientDistance(cf, j) >= ClientDistance(cf, k)}}
  ELSE {DEFAULT_BUCKET}

\* C17: a GET with a non-empty key makes exactly one bucket call, a get on the
\* bucket the client resolves to (nearest, or the default), whatever its
\* X-Bucket-Name header says; it is answered from the object when that bucket
\* stores the key and 404 when it does not, even if another bucket stores it.
\* A bucket stores a key only where an upload of it was completed, and every
\* call of a POST or PUT goes to the bucket its selector names, wherever the
\* client is.
C17_GetConsultsResolvedBackendOnly ==
  /\ (Routed /\ req.method = "GET" /\ req.key # "") =>
       /\ Len(calls) = 1
       /\ calls[1].op = "get" /\ calls[1].key = req.key
       /\ calls[1].bucket \in ResolvedBuckets(req.cf)
       /\ raised = NoRaise =>
            IF <<calls[1].bucket, req.key>> \in objects
            THEN fetched.t = "object" /\ resp.status \in {200, 206, 304}
            ELSE fetched.t = "null" /\ resp.status = 404
  /\ \A o \in objects : \E s \in uploads : s.completed /\ s.bucket = o[1] /\ s.key = o[2]
  /\ (Routed /\ req.method \in {"POST", "PUT"}) =>
       \A i \in 1..Len(calls) :
         KnownSelector(req.selector) /\ calls[i].bucket = RegistryEnv(req.selector)

====
